---- MODULE Spec2Model ----
(***************************************************************************)
(* Model of the AstroInsight MCP server's asynchronous task lifecycle:     *)
(* TaskManager (src/mcp_server.py:57-92), the generate_research_idea tool  *)
(* and its background coroutine (190-245) and the get_task_status tool     *)
(* (247-288).                                                              *)
(*                                                                         *)
(* Strings of the source that are not ASCII are written in English; the    *)
(* line of the source is given next to each.                               *)
(*                                                                         *)
(* The tool functions are synchronous. A host that runs them on its event  *)
(* loop runs each to its end before anything else (dispatch = "loop"); a   *)
(* host that runs them on worker threads interleaves them between the id   *)
(* computation and the store of create_task, and asyncio.create_task then  *)
(* finds no running loop (dispatch = "thread"). The coroutine of a task    *)
(* runs on the loop and is interleaved at its await only.                  *)
(***************************************************************************)
EXTENDS Integers, Sequences, FiniteSets, TLC

(* ---------------------------- bounds ----------------------------------- *)
\* number of generate_research_idea / create_task calls considered
MaxCalls == 2
\* the wall clock runs over the seconds 0..MaxClock
MaxClock == 1
\* number of tasks created when TaskManager is called directly
MaxTMTasks == 2
\* number of calls of the synchronous tools considered
MaxReqs == 2
\* number of error streams opened
MaxStreams == 2

Calls == 1..MaxCalls

\* inputs of generate_research_idea
Keywords == {"dark matter"}
PaperCounts == {3}
\* what the collaborator astro_main returns (None: it returned nothing)
None == "None"
Results == {"idea_1", None}
\* str(e) of what the collaborator raises
Exceptions == {"timeout"}
Statuses == {"pending", "running", "completed", "failed"}

VARIABLES
    tasks,      \* task_manager.tasks: task id -> task record
    now,        \* the wall clock read by datetime.now(), in seconds
    dispatch,   \* where the host runs a synchronous tool function:
                \* "loop" (on the event loop) or "thread" (on worker threads)
    call,       \* the generate_research_idea calls: position, arguments, response
    unit,       \* the background coroutine scheduled by each call
    polled,     \* the get_task_status call made by the last step, if it was one:
                \* its argument and its response
    issued,     \* the ids create_task has returned so far
    ret,        \* the direct update_task call made by the last step, if it was one:
                \* its id and the exception it raised
    tool,       \* the calls of the synchronous tools: what the collaborator did
                \* and what the tool returned
    stream,     \* the error streams: how far each generator has run and the
                \* frames it has yielded
    envelope    \* the last BaseAPI.success call: its arguments and what it returned

\* the state of the task tools, and the state of the rest
taskvars == <<tasks, now, dispatch, call, unit, polled, issued, ret>>
othervars == <<tool, stream, envelope>>
vars == <<tasks, now, dispatch, call, unit, polled, issued, ret, tool, stream, envelope>>

(* ------------------------- TaskManager --------------------------------- *)
\* f"task_{len(self.tasks) + 1}_{int(datetime.now().timestamp())}"
TaskId(n, ts) == "task_" \o ToString(n) \o "_" \o ToString(ts)

\* mutant: the counter of the id is not taken from the registry
AllocId_fixed(reg, clock) == TaskId(1, clock)

\* the id create_task computes from the registry and the clock it reads
AllocId(reg, clock) == TaskId(Cardinality(DOMAIN reg) + 1, clock)

\* mutant: the task is created already running
NewTask_running(task_id, task_type, params, clock) ==
    [id |-> task_id, type |-> task_type, status |-> "running", params |-> params,
     created_at |-> clock, updated_at |-> clock,
     result |-> None, error |-> None, progress |-> 50]

\* the dict literal of create_task
NewTask(task_id, task_type, params, clock) ==
    [id |-> task_id, type |-> task_type, status |-> "pending", params |-> params,
     created_at |-> clock, updated_at |-> clock,
     result |-> None, error |-> None, progress |-> 0]

\* self.tasks[task_id] = {...}: inserts, or overwrites the record under task_id
StoreTask(reg, task_id, rec) ==
    [k \in DOMAIN reg \cup {task_id} |-> IF k = task_id THEN rec ELSE reg[k]]

\* create_task run without interruption: the registry after it and the id returned
create_task(reg, task_type, params, clock) ==
    LET task_id == AllocId(reg, clock)
    IN  [tasks |-> StoreTask(reg, task_id, NewTask(task_id, task_type, params, clock)),
         id |-> task_id]

\* mutant: the last branch of the conditional is 100
ProgressOf_else100(status) ==
    IF status = "completed" THEN 100 ELSE IF status = "running" THEN 50 ELSE 100

\* 100 if status == "completed" else 50 if status == "running" else 0
ProgressOf(status) ==
    IF status = "completed" THEN 100 ELSE IF status = "running" THEN 50 ELSE 0

\* mutant: the record is rebuilt, created_at included
update_task_recreate(reg, task_id, status, result, error, clock) ==
    IF task_id \in DOMAIN reg
    THEN [tasks |-> [reg EXCEPT ![task_id] =
                        [@ EXCEPT !.status = status, !.created_at = clock,
                                  !.updated_at = clock,
                                  !.result = result, !.error = error,
                                  !.progress = ProgressOf(status)]],
          exc |-> None]
    ELSE [tasks |-> reg, exc |-> None]

\* mutant: no test that the id is in the registry: self.tasks[task_id] raises
update_task_unguarded(reg, task_id, status, result, error, clock) ==
    IF task_id \in DOMAIN reg
    THEN [tasks |-> [reg EXCEPT ![task_id] =
                        [@ EXCEPT !.status = status, !.updated_at = clock,
                                  !.result = result, !.error = error,
                                  !.progress = ProgressOf(status)]],
          exc |-> None]
    ELSE [tasks |-> reg, exc |-> "KeyError"]

\* update_task: the registry after it and the exception it raised (None: none)
update_task(reg, task_id, status, result, error, clock) ==
    IF task_id \in DOMAIN reg
    THEN [tasks |-> [reg EXCEPT ![task_id] =
                        [@ EXCEPT !.status = status, !.updated_at = clock,
                                  !.result = result, !.error = error,
                                  !.progress = ProgressOf(status)]],
          exc |-> None]
    ELSE [tasks |-> reg, exc |-> None]

\* get_task's "no such task": dict.get returns None
NoneTask == [none |-> TRUE]

\* mutant: self.tasks.pop(task_id, None) in place of get
get_task_pop(reg, task_id) ==
    [tasks |-> [k \in DOMAIN reg \ {task_id} |-> reg[k]],
     task |-> IF task_id \in DOMAIN reg THEN reg[task_id] ELSE NoneTask]

\* get_task: self.tasks.get(task_id); the registry is returned with the answer
get_task(reg, task_id) ==
    [tasks |-> reg, task |-> IF task_id \in DOMAIN reg THEN reg[task_id] ELSE NoneTask]

(* ------------------------- get_task_status ----------------------------- *)
\* the "task" object of a successful get_task_status response
TaskView(task) ==
    [id |-> task.id, type |-> task.type, status |-> task.status,
     progress |-> task.progress, created_at |-> task.created_at,
     updated_at |-> task.updated_at, error |-> task.error]

\* mutant: the branch for a missing task answers success true
get_task_status_found(reg, task_id) ==
    LET got == get_task(reg, task_id)
    IN  IF got.task = NoneTask
        THEN [tasks |-> got.tasks, raised |-> FALSE,
              resp |-> [success |-> TRUE,
                        message |-> "task not found: " \o task_id,
                        task |-> NoneTask]]
        ELSE [tasks |-> got.tasks, raised |-> FALSE,
              resp |-> [success |-> TRUE,
                        message |-> "task status fetched",
                        task |-> TaskView(got.task)]]

\* get_task_status: the registry after it, the response, and whether it raised
get_task_status(reg, task_id) ==
    LET got == get_task(reg, task_id)
    IN  IF got.task = NoneTask
        THEN [tasks |-> got.tasks, raised |-> FALSE,
              resp |-> [success |-> FALSE,
                        message |-> "task not found: " \o task_id,   \* line 264
                        task |-> NoneTask]]
        ELSE [tasks |-> got.tasks, raised |-> FALSE,
              resp |-> [success |-> TRUE,
                        message |-> "task status fetched",           \* line 270
                        task |-> TaskView(got.task)]]

\* the ids a client may poll in a state: every id in the registry, the id the
\* next create_task would issue, and an id that is never issued
QueryIds == DOMAIN tasks \cup {AllocId(tasks, now), TaskId(0, 0)}

(* ----------------------- synchronous tools ----------------------------- *)
\* Python values a collaborator returns: None, a list, a string
PyNone == [kind |-> "none"]
PyList(items) == [kind |-> "list", items |-> items]
PyStr(str) == [kind |-> "str", s |-> str]

\* Python's truth test, as "if not papers:" applies it
Truthy(v) ==
    CASE v.kind = "none" -> FALSE
      [] v.kind = "list" -> Len(v.items) > 0
      [] v.kind = "str" -> v.s # ""

\* what a collaborator call did: returned a value, or raised an Exception
Returned(v) == [raised |-> FALSE, value |-> v, exc |-> None]
Raised(e) == [raised |-> TRUE, value |-> PyNone, exc |-> e]

\* what a tool call did: returned a response, or let an exception escape
Responded(resp) == [raised |-> FALSE, resp |-> resp]
Escaped(e) == [raised |-> TRUE, resp |-> [success |-> FALSE, message |-> e]]

\* the keys of a paper record, lines 126-131
PaperKeys == {"title", "authors", "abstract", "published", "url", "pdf_url"}

\* paper.get(key, default) with the defaults of lines 126-131
PaperGet(paper, key) ==
    IF key \in DOMAIN paper THEN paper[key]
    ELSE IF key = "authors" THEN PyList(<<>>) ELSE PyStr("")

\* lines 125-132
FormatPaper(paper) == [key \in PaperKeys |-> PaperGet(paper, key)]

\* lines 123-133
FormatPapers(papers) == [i \in 1..Len(papers) |-> FormatPaper(papers[i])]

\* mutant: the handler of search_papers lets the exception go on
search_papers_reraise(out) ==
    IF out.raised
    THEN Escaped(out.exc)
    ELSE IF ~Truthy(out.value)
    THEN Responded([success |-> FALSE, message |-> "no related papers found",
                    papers |-> PyList(<<>>)])
    ELSE Responded([success |-> TRUE,
                    message |-> "found " \o ToString(Len(out.value.items)) \o " papers",
                    papers |-> PyList(FormatPapers(out.value.items))])

\* search_papers, given what search_paper(keyword, limit) did
search_papers(out) ==
    IF out.raised
    THEN Responded([success |-> FALSE,
                    message |-> "error searching papers: " \o out.exc,      \* line 146
                    papers |-> PyList(<<>>)])
    ELSE IF ~Truthy(out.value)
    THEN Responded([success |-> FALSE, message |-> "no related papers found", \* line 118
                    papers |-> PyList(<<>>)])
    ELSE Responded([success |-> TRUE,                                       \* line 138
                    message |-> "found " \o ToString(Len(out.value.items)) \o " papers",
                    papers |-> PyList(FormatPapers(out.value.items))])

\* extract_keywords, given what extract_technical_entities(text, split_section) did
extract_keywords(out) ==
    IF out.raised
    THEN Responded([success |-> FALSE,
                    message |-> "error extracting keywords: " \o out.exc,   \* line 186
                    keywords |-> PyList(<<>>)])
    ELSE IF ~Truthy(out.value)
    THEN Responded([success |-> FALSE, message |-> "no keywords extracted", \* line 171
                    keywords |-> PyList(<<>>)])
    ELSE Responded([success |-> TRUE,                                       \* line 178
                    message |-> "extracted " \o ToString(Len(out.value.items)) \o " keywords",
                    keywords |-> out.value])

\* review_research_idea, given what review_mechanism(topic, draft) did
review_research_idea(out) ==
    IF out.raised
    THEN Responded([success |-> FALSE,
                    message |-> "error reviewing: " \o out.exc,             \* line 325
                    review |-> PyNone])
    ELSE IF ~Truthy(out.value)
    THEN Responded([success |-> FALSE, message |-> "review failed",         \* line 311
                    review |-> PyNone])
    ELSE Responded([success |-> TRUE, message |-> "review done",            \* line 317
                    review |-> out.value])

\* mutant: the result is tested with "is None"
compress_paper_content_isnone(out) ==
    IF out.raised
    THEN Responded([success |-> FALSE,
                    message |-> "error compressing: " \o out.exc,
                    compressed_content |-> PyNone])
    ELSE IF out.value = PyNone
    THEN Responded([success |-> FALSE, message |-> "compression failed",
                    compressed_content |-> PyNone])
    ELSE Responded([success |-> TRUE, message |-> "compression done",
                    compressed_content |-> out.value])

\* compress_paper_content, given what paper_compression(title, abstract, content) did
compress_paper_content(out) ==
    IF out.raised
    THEN Responded([success |-> FALSE,
                    message |-> "error compressing: " \o out.exc,           \* line 365
                    compressed_content |-> PyNone])
    ELSE IF ~Truthy(out.value)
    THEN Responded([success |-> FALSE, message |-> "compression failed",    \* line 351
                    compressed_content |-> PyNone])
    ELSE Responded([success |-> TRUE, message |-> "compression done",       \* line 357
                    compressed_content |-> out.value])

\* what each collaborator may return
Paper1 == [title |-> PyStr("Dark matter halos"), authors |-> PyList(<<"A. Author">>),
           abstract |-> PyStr("We study halos."), published |-> PyStr("2024-01-01"),
           url |-> PyStr("http://arxiv.org/abs/1"), pdf_url |-> PyStr("http://arxiv.org/pdf/1")]
Paper2 == [title |-> PyStr("Black hole spin")]
SearchValues == {PyNone, PyList(<<>>), PyList(<<Paper1>>), PyList(<<Paper1, Paper2>>)}
KeywordValues == {PyNone, PyList(<<>>), PyList(<<"halo", "spin">>)}
TextValues == {PyNone, PyStr(""), PyStr("text")}
\* str(e) of what a collaborator raises
ToolExceptions == {"connection refused"}

ToolNames == {"search_papers", "extract_keywords", "review_research_idea",
              "compress_paper_content"}

\* what the collaborator of a tool may do
Outcomes(name) ==
    {Raised(e) : e \in ToolExceptions} \cup
    {Returned(v) : v \in IF name = "search_papers" THEN SearchValues
                         ELSE IF name = "extract_keywords" THEN KeywordValues
                         ELSE TextValues}

\* the tool the host dispatches a call to
RunTool(name, out) ==
    CASE name = "search_papers" -> search_papers(out)
      [] name = "extract_keywords" -> extract_keywords(out)
      [] name = "review_research_idea" -> review_research_idea(out)
      [] name = "compress_paper_content" -> compress_paper_content(out)

Reqs == 1..MaxReqs
NoToolCall == [name |-> None, out |-> Returned(PyNone), ret |-> Escaped(None)]

(* ------------------------ app/api/common.py ----------------------------- *)
\* more Python values: an int, and a dict as the set of its (key, value) pairs
PyInt(i) == [kind |-> "int", i |-> i]
PyDict(pairs) == [kind |-> "dict", pairs |-> pairs]

\* an argument the caller left out, and one the caller gave
Missing == [given |-> FALSE]
Given(v) == [given |-> TRUE, v |-> v]
ArgOr(arg, default) == IF arg.given THEN arg.v ELSE default

\* the defaults of BaseAPI.success, line 60
DefaultMessage == "success"
DefaultCode == 200
HTTP_200_OK == 200

\* SuccessAPIResponse(code=, message=, data=): the model validates that data is
\* a dict (line 25) and raises ValidationError otherwise
SuccessAPIResponse(code, message, data) ==
    IF data.kind = "dict"
    THEN [raised |-> FALSE, model |-> [code |-> code, message |-> message, data |-> data]]
    ELSE [raised |-> TRUE, model |-> [code |-> code, message |-> message, data |-> PyDict({})]]

\* jsonable_encoder on a value made of dicts, lists, strings, ints and None
RECURSIVE jsonable_encoder(_)
jsonable_encoder(v) ==
    CASE v.kind = "dict" -> PyDict({<<kv[1], jsonable_encoder(kv[2])>> : kv \in v.pairs})
      [] v.kind = "list" -> PyList([i \in 1..Len(v.items) |-> jsonable_encoder(v.items[i])])
      [] OTHER -> v

\* jsonable_encoder on the response model: the dict of its fields
EncodeModel(model) ==
    [code |-> model.code, message |-> model.message, data |-> jsonable_encoder(model.data)]

\* what a BaseAPI call did: returned a JSONResponse, or let an exception escape
NoContent == [code |-> 0, message |-> None, data |-> PyDict({})]
JSONResponse(content, status_code) ==
    [raised |-> FALSE, content |-> content, status_code |-> status_code]
ApiRaised == [raised |-> TRUE, content |-> NoContent, status_code |-> 0]

\* mutant: data is not passed to the response model, which keeps its default {}
success_nodata(data, message, code, status_code) ==
    LET made == SuccessAPIResponse(ArgOr(code, DefaultCode),
                                   ArgOr(message, DefaultMessage), PyDict({}))
    IN  IF made.raised THEN ApiRaised
        ELSE JSONResponse(EncodeModel(made.model), ArgOr(status_code, HTTP_200_OK))

\* BaseAPI.success, lines 59-62
success(data, message, code, status_code) ==
    LET made == SuccessAPIResponse(ArgOr(code, DefaultCode),
                                   ArgOr(message, DefaultMessage), data)
    IN  IF made.raised THEN ApiRaised
        ELSE JSONResponse(EncodeModel(made.model), ArgOr(status_code, HTTP_200_OK))

\* the data success is called with
DataValues ==
    {PyDict({}),
     PyDict({<<"task_id", PyStr("task_1_0")>>}),
     PyDict({<<"count", PyInt(2)>>, <<"papers", PyList(<<PyStr("p1"), PyStr("p2")>>)>>}),
     PyList(<<PyStr("p1")>>),
     PyNone}
MessageArgs == {Missing, Given("created")}
CodeArgs == {Missing, Given(201)}
StatusArgs == {Missing, Given(201)}

NoEnvelope == [called |-> FALSE, data |-> PyNone, message |-> Missing, code |-> Missing,
               status_code |-> Missing, ret |-> ApiRaised]

\* line 45: the content of the error message
ErrorContent == "the operation cannot be completed, please try again later"

\* json.dumps(..., ensure_ascii=False) of a string without quotes or backslashes,
\* of a dict of one or two items and of a list of one item
JsonStr(str) == "\"" \o str \o "\""
JsonDict1(k, v) == "{" \o JsonStr(k) \o ": " \o v \o "}"
JsonDict2(k1, v1, k2, v2) ==
    "{" \o JsonStr(k1) \o ": " \o v1 \o ", " \o JsonStr(k2) \o ": " \o v2 \o "}"
JsonList1(v) == "[" \o v \o "]"

\* json.dumps(error_message, ensure_ascii=False), lines 44-47
ErrorMessageJson ==
    JsonDict1("choices",
        JsonList1(JsonDict1("delta",
            JsonDict2("role", JsonStr("assistant"), "content", JsonStr(ErrorContent)))))

\* mutant: a frame is appended after the sentinel
chunks_three == <<"data: " \o ErrorMessageJson \o "\n\n", "data: [DONE]\n\n", "data: \n\n">>

\* the list chunks of error_stream_gen, lines 46-49
chunks == <<"data: " \o ErrorMessageJson \o "\n\n", "data: [DONE]\n\n">>

\* lines 33-37
HEADERS == [Cache_Control |-> "no-cache", Connection |-> "keep-alive"]
MEDIA_TYPE == "text/event-stream"

Streams == 1..MaxStreams
NoStream == [pc |-> "none", next |-> 0, out |-> <<>>, media_type |-> None,
             headers |-> [Cache_Control |-> None, Connection |-> None]]

(* ----------------------------- state ----------------------------------- *)
NoCall == [pc |-> "new", keyword |-> None, paper_count |-> 0,
           task_id |-> None, resp |-> [success |-> FALSE, message |-> None, task_id |-> None]]
NoUnit == [pc |-> "none", task_id |-> None, outcome |-> None, value |-> None]
NoPoll == [id |-> None, resp |-> [success |-> FALSE, message |-> None, task |-> NoneTask],
           raised |-> FALSE]
NoRet == [op |-> None, id |-> None, exc |-> None]

InitCommon ==
    /\ tasks = [k \in {} |-> NoneTask]
    /\ now = 0
    /\ call = [c \in Calls |-> NoCall]
    /\ unit = [c \in Calls |-> NoUnit]
    /\ polled = NoPoll
    /\ issued = {}
    /\ ret = NoRet
    /\ tool = [r \in Reqs |-> NoToolCall]
    /\ stream = [st \in Streams |-> NoStream]
    /\ envelope = NoEnvelope

Init ==
    /\ InitCommon
    /\ dispatch \in {"loop", "thread"}

\* the clock advances
Tick ==
    /\ now < MaxClock
    /\ now' = now + 1
    /\ polled' = NoPoll
    /\ UNCHANGED <<tasks, dispatch, call, unit, issued, ret, othervars>>

\* calls are numbered in the order they begin
MayBegin(c) ==
    /\ call[c].pc = "new"
    /\ \A d \in Calls : d < c => call[d].pc # "new"

Params(kw, n) == [keyword |-> kw, paper_count |-> n]

(* -------------------- generate_research_idea --------------------------- *)
\* the response of lines 214-218
StartedResp(task_id) ==
    [success |-> TRUE, message |-> "research idea task started", task_id |-> task_id]

\* the response of lines 222-226
CreateFailedResp(e) ==
    [success |-> FALSE, message |-> "error creating task: " \o e, task_id |-> None]

\* The tool function run on the event loop: nothing else runs on the loop
\* until it returns, and asyncio.create_task schedules the coroutine.
GenerateResearchIdea(c, kw, n) ==
    /\ dispatch = "loop"
    /\ MayBegin(c)
    /\ LET made == create_task(tasks, "generate_research_idea", Params(kw, n), now)
       IN  /\ tasks' = made.tasks
           /\ issued' = issued \cup {made.id}
           /\ call' = [call EXCEPT ![c] = [pc |-> "done", keyword |-> kw, paper_count |-> n,
                                           task_id |-> made.id,
                                           resp |-> StartedResp(made.id)]]
           /\ unit' = [unit EXCEPT ![c] = [pc |-> "scheduled", task_id |-> made.id,
                                           outcome |-> None, value |-> None]]
    /\ polled' = NoPoll
    /\ UNCHANGED <<now, dispatch, ret, othervars>>

\* The tool function run on a worker thread, first part: create_task has
\* evaluated its id (line 65) and the thread may be switched out before the
\* store of line 66.
GenerateAlloc(c, kw, n) ==
    /\ dispatch = "thread"
    /\ MayBegin(c)
    /\ call' = [call EXCEPT ![c] = [pc |-> "alloc", keyword |-> kw, paper_count |-> n,
                                    task_id |-> AllocId(tasks, now),
                                    resp |-> NoCall.resp]]
    /\ polled' = NoPoll
    /\ UNCHANGED <<tasks, now, dispatch, unit, issued, ret, othervars>>

\* Second part: the store of line 66 and the return of the id; then
\* asyncio.create_task (line 212) finds no running event loop on the worker
\* thread and raises RuntimeError, which the handler of line 220 turns into
\* the failure response. No coroutine is scheduled.
GenerateStore(c) ==
    /\ dispatch = "thread"
    /\ call[c].pc = "alloc"
    /\ LET task_id == call[c].task_id
           rec == NewTask(task_id, "generate_research_idea",
                          Params(call[c].keyword, call[c].paper_count), now)
       IN  /\ tasks' = StoreTask(tasks, task_id, rec)
           /\ issued' = issued \cup {task_id}
           /\ call' = [call EXCEPT ![c].pc = "done",
                                   ![c].resp = CreateFailedResp("no running event loop")]
    /\ polled' = NoPoll
    /\ UNCHANGED <<now, dispatch, unit, ret, othervars>>

(* ------------------ _generate_research_idea_async ---------------------- *)
\* line 243
ErrorMsg(e) == "error generating research idea: " \o e

\* line 231: the coroutine starts and then awaits the executor
UnitStart(c) ==
    /\ unit[c].pc = "scheduled"
    /\ tasks' = update_task(tasks, unit[c].task_id, "running", None, None, now).tasks
    /\ unit' = [unit EXCEPT ![c].pc = "awaiting"]
    /\ polled' = NoPoll
    /\ UNCHANGED <<now, dispatch, call, issued, ret, othervars>>

\* lines 235-239: astro_main returned r
UnitComplete(c, r) ==
    /\ unit[c].pc = "awaiting"
    /\ tasks' = update_task(tasks, unit[c].task_id, "completed", r, None, now).tasks
    /\ unit' = [unit EXCEPT ![c].pc = "done", ![c].outcome = "returned", ![c].value = r]
    /\ polled' = NoPoll
    /\ UNCHANGED <<now, dispatch, call, issued, ret, othervars>>

\* mutant: the handler only logs the failure
UnitFail_logonly(c, e) ==
    /\ unit[c].pc = "awaiting"
    /\ tasks' = tasks
    /\ unit' = [unit EXCEPT ![c].pc = "done", ![c].outcome = "raised", ![c].value = e]
    /\ polled' = NoPoll
    /\ UNCHANGED <<now, dispatch, call, issued, ret, othervars>>

\* mutant: the message is passed as the third positional argument (result)
UnitFail_positional(c, e) ==
    /\ unit[c].pc = "awaiting"
    /\ tasks' = update_task(tasks, unit[c].task_id, "failed", ErrorMsg(e), None, now).tasks
    /\ unit' = [unit EXCEPT ![c].pc = "done", ![c].outcome = "raised", ![c].value = e]
    /\ polled' = NoPoll
    /\ UNCHANGED <<now, dispatch, call, issued, ret, othervars>>

\* lines 242-244: astro_main raised an Exception e
UnitFail(c, e) ==
    /\ unit[c].pc = "awaiting"
    /\ tasks' = update_task(tasks, unit[c].task_id, "failed", None, ErrorMsg(e), now).tasks
    /\ unit' = [unit EXCEPT ![c].pc = "done", ![c].outcome = "raised", ![c].value = e]
    /\ polled' = NoPoll
    /\ UNCHANGED <<now, dispatch, call, issued, ret, othervars>>

(* --------------------------- polling ----------------------------------- *)
GetTaskStatus(task_id) ==
    LET got == get_task_status(tasks, task_id)
    IN  /\ tasks' = got.tasks
        /\ polled' = [id |-> task_id, resp |-> got.resp, raised |-> got.raised]
        /\ UNCHANGED <<now, dispatch, call, unit, issued, ret, othervars>>

Next ==
    \/ Tick
    \/ \E c \in Calls, kw \in Keywords, n \in PaperCounts : GenerateResearchIdea(c, kw, n)
    \/ \E c \in Calls, kw \in Keywords, n \in PaperCounts : GenerateAlloc(c, kw, n)
    \/ \E c \in Calls : GenerateStore(c)
    \/ \E c \in Calls : UnitStart(c)
    \/ \E c \in Calls, r \in Results : UnitComplete(c, r)
    \/ \E c \in Calls, e \in Exceptions : UnitFail(c, e)
    \/ \E task_id \in QueryIds : GetTaskStatus(task_id)

Spec == Init /\ [][Next]_vars

\* The event loop runs every coroutine that is ready, the collaborator
\* returns or raises in the end, and a worker thread that has computed its id
\* goes on to the store.
Fairness ==
    \A c \in Calls :
        /\ WF_vars(UnitStart(c))
        /\ WF_vars((\E r \in Results : UnitComplete(c, r)) \/ (\E e \in Exceptions : UnitFail(c, e)))
        /\ WF_vars(GenerateStore(c))

SpecFair == Spec /\ Fairness

(* ------------- TaskManager called directly, one call at a time ---------- *)
TaskTypes == {"generate_research_idea"}
\* the (status, result, error) arguments update_task is called with
UpdateArgs == {<<"pending", None, None>>, <<"running", None, None>>,
               <<"completed", "idea_1", None>>, <<"failed", None, "boom">>}

InitTM ==
    /\ InitCommon
    /\ dispatch = "loop"

TMCreate(task_type, kw, n) ==
    /\ Cardinality(DOMAIN tasks) < MaxTMTasks
    /\ LET made == create_task(tasks, task_type, Params(kw, n), now)
       IN  /\ tasks' = made.tasks
           /\ issued' = issued \cup {made.id}
           /\ ret' = NoRet
    /\ polled' = NoPoll
    /\ UNCHANGED <<now, dispatch, call, unit, othervars>>

TMUpdate(task_id, status, result, error) ==
    /\ LET upd == update_task(tasks, task_id, status, result, error, now)
       IN  /\ tasks' = upd.tasks
           /\ ret' = [op |-> "update_task", id |-> task_id, exc |-> upd.exc]
    /\ polled' = NoPoll
    /\ UNCHANGED <<now, dispatch, call, unit, issued, othervars>>

TMGet(task_id) ==
    /\ tasks' = get_task(tasks, task_id).tasks
    /\ ret' = NoRet
    /\ polled' = NoPoll
    /\ UNCHANGED <<now, dispatch, call, unit, issued, othervars>>

TickTM ==
    /\ now < MaxClock
    /\ now' = now + 1
    /\ ret' = NoRet
    /\ polled' = NoPoll
    /\ UNCHANGED <<tasks, dispatch, call, unit, issued, othervars>>

NextTM ==
    \/ TickTM
    \/ \E t \in TaskTypes, kw \in Keywords, n \in PaperCounts : TMCreate(t, kw, n)
    \/ \E task_id \in QueryIds, a \in UpdateArgs : TMUpdate(task_id, a[1], a[2], a[3])
    \/ \E task_id \in QueryIds : TMGet(task_id)

SpecTM == InitTM /\ [][NextTM]_vars

(* --------------------- calls of the synchronous tools ------------------- *)
\* requests are numbered in the order they are made
CallTool(r, name, out) ==
    /\ tool[r].name = None
    /\ \A q \in Reqs : q < r => tool[q].name # None
    /\ tool' = [tool EXCEPT ![r] = [name |-> name, out |-> out, ret |-> RunTool(name, out)]]
    /\ UNCHANGED <<taskvars, stream, envelope>>

NextTools ==
    \E r \in Reqs, name \in ToolNames : \E out \in Outcomes(name) : CallTool(r, name, out)

SpecTools == InitTM /\ [][NextTools]_vars

(* ------------------------ calls of BaseAPI ------------------------------ *)
Success(data, message, code, status_code) ==
    /\ envelope' = [called |-> TRUE, data |-> data, message |-> message, code |-> code,
                    status_code |-> status_code,
                    ret |-> success(data, message, code, status_code)]
    /\ UNCHANGED <<taskvars, tool, stream>>

\* BaseAPI.error_stream_response, lines 76-79: a StreamingResponse over a new
\* error_stream_gen(); streams are numbered in the order they are opened
ErrorStreamResponse(st) ==
    /\ stream[st].pc = "none"
    /\ \A q \in Streams : q < st => stream[q].pc # "none"
    /\ stream' = [stream EXCEPT ![st] = [pc |-> "open", next |-> 1, out |-> <<>>,
                                         media_type |-> MEDIA_TYPE, headers |-> HEADERS]]
    /\ UNCHANGED <<taskvars, tool, envelope>>

\* the response asks the generator for its next chunk and sends it (lines 50-51)
StreamYield(st) ==
    /\ stream[st].pc = "open"
    /\ stream[st].next <= Len(chunks)
    /\ stream' = [stream EXCEPT ![st].out = Append(@, chunks[stream[st].next]),
                                ![st].next = @ + 1]
    /\ UNCHANGED <<taskvars, tool, envelope>>

\* the loop over chunks has ended: the generator stops and the body is complete
StreamEnd(st) ==
    /\ stream[st].pc = "open"
    /\ stream[st].next > Len(chunks)
    /\ stream' = [stream EXCEPT ![st].pc = "closed"]
    /\ UNCHANGED <<taskvars, tool, envelope>>

NextAPI ==
    \/ \E data \in DataValues, message \in MessageArgs, code \in CodeArgs,
          status_code \in StatusArgs : Success(data, message, code, status_code)
    \/ \E st \in Streams : ErrorStreamResponse(st)
    \/ \E st \in Streams : StreamYield(st)
    \/ \E st \in Streams : StreamEnd(st)

SpecAPI == InitTM /\ [][NextAPI]_vars

(* ============================== claims ================================== *)
\* the calls whose create_task has returned an id
Created == {c \in Calls : call[c].pc = "done"}

\* C1: the ids returned by concurrent create_task calls are pairwise distinct,
\* so after N calls the registry holds N records and none was overwritten.
C1_IdsPairwiseDistinct ==
    /\ \A c, d \in Created : c # d => call[c].task_id # call[d].task_id
    /\ Cardinality(DOMAIN tasks) = Cardinality(Created)

\* the status changes a task may make in one step
Forward == {<<"pending", "running">>, <<"running", "completed">>, <<"running", "failed">>}

\* C2: every task starts pending and its status only ever moves
\* pending -> running -> (completed | failed); a completed or failed task
\* keeps its status in every later step.
C2_StatusMonotonic ==
    [][ /\ \A k \in DOMAIN tasks' \ DOMAIN tasks : tasks'[k].status = "pending"
        /\ \A k \in DOMAIN tasks \cap DOMAIN tasks' :
              \/ tasks'[k].status = tasks[k].status
              \/ <<tasks[k].status, tasks'[k].status>> \in Forward ]_vars

C2_Witness ==
    \E c, d \in Calls :
        /\ unit[c].pc = "done" /\ tasks[unit[c].task_id].status = "completed"
        /\ unit[d].pc = "done" /\ tasks[unit[d].task_id].status = "failed"

\* the table of the data model: status -> progress
ProgressTable ==
    [s \in Statuses |-> CASE s = "pending" -> 0 [] s = "running" -> 50
                          [] s = "completed" -> 100 [] s = "failed" -> 0]

\* C3: every task of the registry has the progress the table gives its status.
C3_ProgressFromStatus ==
    \A k \in DOMAIN tasks :
        /\ tasks[k].status \in Statuses
        /\ tasks[k].progress = ProgressTable[tasks[k].status]

C3_Witness ==
    \E j, k \in DOMAIN tasks :
        /\ tasks[j].status = "running" /\ tasks[j].progress = 50
        /\ tasks[k].status = "failed" /\ tasks[k].progress = 0

\* C4: a result is held only by a completed task and an error only by a
\* failed task; no task holds both.
C4_ResultErrorOnlyWhenTerminal ==
    \A k \in DOMAIN tasks :
        /\ tasks[k].result # None => tasks[k].status = "completed"
        /\ tasks[k].error # None => tasks[k].status = "failed"
        /\ ~(tasks[k].result # None /\ tasks[k].error # None)

C4_Witness ==
    \E j, k \in DOMAIN tasks :
        /\ tasks[j].status = "completed" /\ tasks[j].result # None
        /\ tasks[k].status = "failed" /\ tasks[k].error # None

\* C5 (as stated): once the background unit of a task has completed with
\* result R, a get_task_status of that task shows status completed,
\* progress 100, result R and error null.
C5_PollShowsResult ==
    \A c \in Calls :
        (unit[c].pc = "done" /\ unit[c].outcome = "returned" /\ polled.id = unit[c].task_id)
        => /\ polled.resp.success
           /\ polled.resp.task.status = "completed"
           /\ polled.resp.task.progress = 100
           /\ "result" \in DOMAIN polled.resp.task
           /\ polled.resp.task.result = unit[c].value
           /\ polled.resp.task.error = None

\* C6: update_task with an id that is not in the registry raises nothing and
\* leaves the registry, its key set and every record, as it was.
C6_UpdateUnknownIsNoOp ==
    [][ \A task_id \in QueryIds \ DOMAIN tasks, a \in UpdateArgs :
            TMUpdate(task_id, a[1], a[2], a[3]) => (tasks' = tasks /\ ret'.exc = None) ]_vars

C6_Witness ==
    /\ ret.op = "update_task"
    /\ ret.id \notin DOMAIN tasks
    /\ ret.exc = None
    /\ DOMAIN tasks # {}

\* C7: get_task_status of an id that create_task never returned answers,
\* without raising, success false and task null.
C7_NeverIssuedNotFound ==
    (polled.id # None /\ polled.id \notin issued)
    => /\ ~polled.raised
       /\ polled.resp.success = FALSE
       /\ polled.resp.task = NoneTask

C7_Witness ==
    /\ polled.id # None
    /\ polled.id \notin issued
    /\ issued # {}
    /\ polled.resp.success = FALSE

\* C8: when the collaborator fails inside a background unit, the caller keeps
\* the success response with the task id it already has, the failure is written
\* to that task alone, and the task ends failed with an error message, no
\* result and progress 0.
C8_FailureStaysOnTask ==
    /\ [](\A c \in Calls :
             (unit[c].pc = "done" /\ unit[c].outcome = "raised")
             => /\ call[c].resp.success = TRUE
                /\ call[c].resp.task_id = unit[c].task_id
                /\ tasks[unit[c].task_id].status = "failed"
                /\ tasks[unit[c].task_id].error # None
                /\ tasks[unit[c].task_id].result = None
                /\ tasks[unit[c].task_id].progress = 0)
    /\ [][ \A c \in Calls, e \in Exceptions :
              UnitFail(c, e)
              => /\ call' = call
                 /\ DOMAIN tasks' = DOMAIN tasks
                 /\ \A k \in DOMAIN tasks \ {unit[c].task_id} : tasks'[k] = tasks[k] ]_vars

C8_Witness ==
    \E c, d \in Calls :
        /\ unit[c].pc = "done" /\ unit[c].outcome = "raised"
        /\ tasks[unit[c].task_id].status = "failed"
        /\ call[c].resp.success
        /\ unit[d].pc = "awaiting" /\ tasks[unit[d].task_id].status = "running"

\* C9: create_task adds a pending task with progress 0, no result and no
\* error, and a get_task_status of the returned id made before any step of
\* the task's background unit shows pending and progress 0.
C9_CreatedPending ==
    \A c \in Created :
        unit[c].pc \in {"none", "scheduled"}
        => /\ call[c].task_id \in DOMAIN tasks
           /\ tasks[call[c].task_id].id = call[c].task_id
           /\ tasks[call[c].task_id].type = "generate_research_idea"
           /\ tasks[call[c].task_id].status = "pending"
           /\ tasks[call[c].task_id].progress = 0
           /\ tasks[call[c].task_id].result = None
           /\ tasks[call[c].task_id].error = None
           /\ polled.id = call[c].task_id
              => /\ polled.resp.success
                 /\ polled.resp.task.status = "pending"
                 /\ polled.resp.task.progress = 0

C9_Witness ==
    \E c \in Created :
        /\ unit[c].pc = "scheduled"
        /\ polled.id = call[c].task_id
        /\ polled.resp.success
        /\ polled.resp.task.status = "pending"

\* C10: get_task_status can be taken in every state, for every id; it leaves
\* the registry as it was and reports the status, progress and error the task
\* holds in the registry at that moment.
C10_PollReadOnly ==
    /\ [](\A task_id \in QueryIds : ENABLED GetTaskStatus(task_id))
    /\ [][ \A task_id \in QueryIds :
              GetTaskStatus(task_id)
              => /\ tasks' = tasks
                 /\ ~polled'.raised
                 /\ task_id \in DOMAIN tasks
                    => /\ polled'.resp.success
                       /\ polled'.resp.task.status = tasks[task_id].status
                       /\ polled'.resp.task.progress = tasks[task_id].progress
                       /\ polled'.resp.task.error = tasks[task_id].error ]_vars

C10_Witness ==
    \E c \in Calls :
        /\ unit[c].pc = "awaiting"
        /\ polled.id = unit[c].task_id
        /\ polled.resp.success
        /\ polled.resp.task.status = "running"
        /\ polled.resp.task.progress = 50

\* the calls of the synchronous tools made so far
Called == {r \in Reqs : tool[r].name # None}

\* the data field of each tool's response and its empty default
DataOf(name, resp) ==
    CASE name = "search_papers" -> resp.papers
      [] name = "extract_keywords" -> resp.keywords
      [] name = "review_research_idea" -> resp.review
      [] name = "compress_paper_content" -> resp.compressed_content
DefaultData(name) ==
    IF name \in {"search_papers", "extract_keywords"} THEN PyList(<<>>) ELSE PyNone
FailureText(name) ==
    CASE name = "search_papers" -> "error searching papers: "
      [] name = "extract_keywords" -> "error extracting keywords: "
      [] name = "review_research_idea" -> "error reviewing: "
      [] name = "compress_paper_content" -> "error compressing: "

\* C11: no exception escapes a synchronous tool; when the collaborator raises,
\* the tool answers success false, a message that carries the failure, and
\* its empty default data (papers [], keywords [], review null,
\* compressed_content null).
C11_NoExceptionEscapes ==
    \A r \in Called :
        /\ ~tool[r].ret.raised
        /\ tool[r].out.raised
           => /\ tool[r].ret.resp.success = FALSE
              /\ tool[r].ret.resp.message = FailureText(tool[r].name) \o tool[r].out.exc
              /\ DataOf(tool[r].name, tool[r].ret.resp) = DefaultData(tool[r].name)

C11_Witness ==
    \E q, r \in Called :
        /\ tool[q].name = "search_papers" /\ tool[q].out.raised
        /\ tool[q].ret.resp.papers = PyList(<<>>)
        /\ tool[r].name = "compress_paper_content" /\ tool[r].out.raised
        /\ tool[r].ret.resp.success = FALSE

\* the values Python takes for false among those a collaborator returns
Falsy == {PyNone, PyList(<<>>), PyStr("")}

\* C12: when the collaborator returns an empty or falsy value the tool answers
\* success false with its default data, and success true is answered only
\* for a non-empty collaborator result.
C12_FalsyResultIsFailure ==
    \A r \in Called :
        /\ (~tool[r].out.raised /\ tool[r].out.value \in Falsy)
           => /\ ~tool[r].ret.raised
              /\ tool[r].ret.resp.success = FALSE
              /\ DataOf(tool[r].name, tool[r].ret.resp) = DefaultData(tool[r].name)
        /\ (~tool[r].ret.raised /\ tool[r].ret.resp.success)
           => (~tool[r].out.raised /\ tool[r].out.value \notin Falsy)

C12_Witness ==
    \E q, r \in Called :
        /\ tool[q].name = "search_papers" /\ tool[q].out = Returned(PyList(<<>>))
        /\ tool[q].ret.resp.success = FALSE /\ tool[q].ret.resp.papers = PyList(<<>>)
        /\ tool[r].name = "compress_paper_content" /\ tool[r].out = Returned(PyStr(""))
        /\ tool[r].ret.resp.success = FALSE /\ tool[r].ret.resp.compressed_content = PyNone

\* the two frames of the error stream
MessageFrame ==
    "data: {\"choices\": [{\"delta\": {\"role\": \"assistant\", \"content\": \"the operation cannot be completed, please try again later\"}}]}\n\n"
DoneFrame == "data: [DONE]\n\n"

\* C13: an error stream yields the message frame, then the sentinel frame
\* "data: [DONE]\n\n", then ends; nothing follows the sentinel.
C13_ErrorStreamTwoFrames ==
    \A st \in Streams :
        /\ stream[st].out \in {<<>>, <<MessageFrame>>, <<MessageFrame, DoneFrame>>}
        /\ stream[st].pc = "closed" => stream[st].out = <<MessageFrame, DoneFrame>>
        /\ (stream[st].pc = "open" /\ Len(stream[st].out) = 2)
           => (ENABLED StreamEnd(st) /\ ~ENABLED StreamYield(st))

C13_Witness ==
    \E st \in Streams :
        /\ stream[st].pc = "closed"
        /\ Len(stream[st].out) = 2
        /\ stream[st].out[2] = DoneFrame
        /\ stream[st].media_type = "text/event-stream"

\* a success call that leaves message, code and status_code to their defaults
DefaultsCall ==
    /\ envelope.called
    /\ envelope.message = Missing /\ envelope.code = Missing /\ envelope.status_code = Missing

Terminal == {"completed", "failed"}

\* C15 (as stated): every task created by generate_research_idea reaches a
\* terminal status in the end, when the collaborator returns or raises and
\* the scheduled background units are run.
C15_EventuallyTerminal ==
    \A c \in Calls :
        (call[c].pc = "done")
        ~> (/\ call[c].task_id \in DOMAIN tasks
            /\ tasks[call[c].task_id].status \in Terminal)

\* C16 (as stated): a finished generate_research_idea call has left a task
\* record exactly when it answered success true with the task's id; a call
\* that answered success false and task_id null has left no record.
C16_RecordIffSuccess ==
    \A c \in Created :
        \/ /\ call[c].resp.success
           /\ call[c].resp.task_id = call[c].task_id
           /\ call[c].task_id \in DOMAIN tasks
        \/ /\ ~call[c].resp.success
           /\ call[c].resp.task_id = None
           /\ call[c].task_id \notin DOMAIN tasks

\* a step of the background unit of call c: one update_task call on its task
UnitStep(c) ==
    \/ UnitStart(c)
    \/ \E r \in Results : UnitComplete(c, r)
    \/ \E e \in Exceptions : UnitFail(c, e)

\* C17: update_task on an existing id leaves the key set, every other task's
\* record, and the task's own id, type, params and created_at as they were,
\* so the background units of distinct tasks never alter each other's records.
C17_UpdateFrame ==
    [][ \A c \in Calls :
          UnitStep(c)
          => /\ unit[c].task_id \in DOMAIN tasks
             /\ DOMAIN tasks' = DOMAIN tasks
             /\ \A k \in DOMAIN tasks \ {unit[c].task_id} : tasks'[k] = tasks[k]
             /\ tasks'[unit[c].task_id].id = tasks[unit[c].task_id].id
             /\ tasks'[unit[c].task_id].type = tasks[unit[c].task_id].type
             /\ tasks'[unit[c].task_id].params = tasks[unit[c].task_id].params
             /\ tasks'[unit[c].task_id].created_at = tasks[unit[c].task_id].created_at ]_vars

C17_Witness ==
    \E c, d \in Calls :
        /\ c # d
        /\ unit[c].pc = "done" /\ unit[d].pc = "awaiting"
        /\ tasks[unit[c].task_id].status = "completed"
        /\ tasks[unit[c].task_id].updated_at > tasks[unit[c].task_id].created_at
        /\ tasks[unit[d].task_id].status = "running"

\* a create_task call that no other create_task call overlaps: a call on the
\* event loop; on worker threads, a store made while no other call is between
\* its id and its store and the registry has the size the id was computed from
AloneStore(c) ==
    /\ GenerateStore(c)
    /\ \A d \in Calls \ {c} : call[d].pc # "alloc"
    /\ \E t \in 0..MaxClock : call[c].task_id = AllocId(tasks, t)

\* C18: no step removes a task from the registry, and every create_task call
\* that overlaps no other adds exactly one record under an id that was never
\* issued before, also within one second.
C18_RegistryOnlyGrows ==
    [][ /\ DOMAIN tasks \subseteq DOMAIN tasks'
        /\ issued \subseteq issued'
        /\ \A c \in Calls :
              ((\E kw \in Keywords, n \in PaperCounts : GenerateResearchIdea(c, kw, n))
                 \/ AloneStore(c))
              => /\ Cardinality(DOMAIN tasks') = Cardinality(DOMAIN tasks) + 1
                 /\ call'[c].task_id \notin issued
                 /\ call'[c].task_id \notin DOMAIN tasks
                 /\ call'[c].task_id \in DOMAIN tasks' ]_vars

C18_Witness ==
    \E c, d \in Created :
        /\ c # d
        /\ call[c].task_id # call[d].task_id
        /\ {call[c].task_id, call[d].task_id} \subseteq DOMAIN tasks
        /\ tasks[call[c].task_id].created_at = tasks[call[d].task_id].created_at
        /\ Cardinality(DOMAIN tasks) = 2

====
